---- MODULE Spec2Model ----
(***************************************************************************)
(* Model of hippy/module/pypy_bridge/py_wrappers.py: the Python-side       *)
(* wrappers of PHP values (W_PHPGenericAdapter, W_PHPFuncAdapter,          *)
(* W_PHPRefAdapter).                                                       *)
(*                                                                         *)
(* A PHP value is a record [t, v]: t the type tag, v a sequence of         *)
(* integers (the number, the array's elements, the handle).  A Python      *)
(* value is a record [t, v, w]: w is the PHP value a wrapper holds (PNull  *)
(* for a plain value).  The tags of the two sides differ, so a conversion  *)
(* is never the identity.                                                  *)
(***************************************************************************)
EXTENDS Integers, Sequences, FiniteSets, TLC

VARIABLES
    refs,   \* refs[c]: payload of W_Reference c, the one W_PHPRefAdapter c holds
    objs,   \* objs[h]: the PHP instance or class with handle h
    last    \* the operation the Python program just performed, or Idle

vars == <<refs, objs, last>>

----------------------------------------------------------------------------
(* Bounds *)

MaxArgs == 2     \* positional arguments of one call
MaxCells == 2    \* W_PHPRefAdapter objects the Python program creates

----------------------------------------------------------------------------
(* PHP values *)

PInt(n) == [t |-> "int", v |-> <<n>>]
PArr(s) == [t |-> "array", v |-> s]
PNull == [t |-> "null", v |-> <<>>]
PObj(h) == [t |-> "object", v |-> <<h>>]
PFunc(k) == [t |-> "function", v |-> <<k>>]
\* hippy.objects.reference.W_Reference number c
W_Reference(c) == [t |-> "reference", v |-> <<c>>]
\* the PHP-side wrapper of the Python object PHPRef number c
PyProxy(c) == [t |-> "py_proxy", v |-> <<c>>]
\* RPython's None where a PHP value is expected
None == [t |-> "None", v |-> <<>>]

(* Python values *)

PyInt(n) == [t |-> "py_int", v |-> <<n>>, w |-> PNull]
PyList(s) == [t |-> "py_list", v |-> s, w |-> PNull]
PyNone == [t |-> "py_none", v |-> <<>>, w |-> PNull]
w_True == [t |-> "py_bool", v |-> <<1>>, w |-> PNull]
w_False == [t |-> "py_bool", v |-> <<0>>, w |-> PNull]
\* no Python value at all (the operation raised)
NoValue == [t |-> "absent", v |-> <<>>, w |-> PNull]

\* W_PHPGenericAdapter.__init__: the Python object number id, holding w_php_inst
GenericAdapter(id, w_php_inst) ==
    [t |-> "PHPGenericAdapter", v |-> <<id>>, w |-> w_php_inst]

\* W_PHPFuncAdapter.__init__: the Python object number id, holding w_php_func
FuncAdapter(id, w_php_func) ==
    [t |-> "PHPFunc", v |-> <<id>>, w |-> w_php_func]

\* the W_PHPRefAdapter object number c; its field ref is W_Reference number c
PHPRef(c) == [t |-> "PHPRef", v |-> <<c>>, w |-> W_Reference(c)]

\* isinstance(w_py_arg, W_PHPRefAdapter)
IsRefAdapter(x) == x.t = "PHPRef"

\* w_py_arg.ref
RefOf(x) == x.w

\* to_php wrapping the adapter, a Python object, for PHP instead of giving
\* to_php handing PHP a new object in place of the wrapped one
GenericAdapter_to_php_Copies(x) == PObj(0)

\* back what it holds
GenericAdapter_to_php_Rewraps(x) == PyProxy(x.v[1])

\* W_PHPGenericAdapter.to_php
GenericAdapter_to_php(x) == x.w

\* W_PHPGenericAdapter.get_wrapped_php_obj, W_PHPFuncAdapter.get_wrapped_php_obj
get_wrapped_php_obj(x) == x.w

\* x.to_php(interp).  Plain values convert structurally, a list to a new PHP
\* array with the same elements; a W_PHPGenericAdapter gives its own
\* to_php; any other wrapper goes through W_Root's conversion: a
\* W_PHPFuncAdapter gives back the callable it holds, and a W_PHPRefAdapter,
\* a Python object like any other, is wrapped for PHP.
to_php(x) ==
    CASE x.t = "py_int" -> PInt(x.v[1])
      [] x.t = "py_list" -> PArr(x.v)
      [] x.t = "PHPGenericAdapter" -> GenericAdapter_to_php(x)
      [] x.t = "PHPFunc" -> x.w
      [] x.t = "PHPRef" -> PyProxy(x.v[1])
      [] OTHER -> PNull

\* w.to_py(interp).  Scalars and arrays convert structurally; an object or a
\* class is wrapped in a new W_PHPGenericAdapter and a callable in a new
\* W_PHPFuncAdapter (new Python objects have number 0); the wrapper of a Python
\* object gives that object back.
to_py(w) ==
    CASE w.t = "int" -> PyInt(w.v[1])
      [] w.t = "array" -> PyList(w.v)
      [] w.t = "object" -> GenericAdapter(0, w)
      [] w.t \in {"function", "method"} -> FuncAdapter(0, w)
      [] w.t = "py_proxy" -> PHPRef(w.v[1])
      [] OTHER -> PyNone

----------------------------------------------------------------------------
(* The PHP side: the functions the adapter wraps (the functions of         *)
(* testing/test_pypy_bridge_arg_passing.py) and their execution.           *)

Assigned == 666   \* the value the PHP test functions assign

\* name: w_php_func.name; byref: the 0-based positions declared with &;
\* body: what the function does with its parameters.
\*   g, g_ref   function g($l)  { $l[0] = 666; } / { $i = 666; }
\*   swap       function swap(&$o1, &$o2) { $tmp = $o1; $o1 = $o2; $o2 = $tmp; }
\*   swap_local function swap_local($o1, $o2) { the same body }
\*   h          function h($a, &$b) { $b = 666; return $a; }
\*   t          function t($e) { throw new Exception($e); }
\*   set_x      function set_x($o) { $o->x = 666; }
PHPFuncs ==
    << [name |-> "g", byref |-> {}, body |-> "mutate"],
       [name |-> "g_ref", byref |-> {0}, body |-> "mutate"],
       [name |-> "swap", byref |-> {0, 1}, body |-> "swap"],
       [name |-> "swap_local", byref |-> {}, body |-> "swap"],
       [name |-> "h", byref |-> {1}, body |-> "assign2"],
       [name |-> "t", byref |-> {}, body |-> "throw"],
       [name |-> "set_x", byref |-> {}, body |-> "setprop"] >>

FuncIds == DOMAIN PHPFuncs

\* w_php_func.needs_ref(arg_no), arg_no counted from 0
needs_ref(f, arg_no) == arg_no \in PHPFuncs[f].byref

\* W_Reference.deref(), and the read of a parameter: a parameter bound to a
\* W_Reference reads the slot, any other parameter is a local holding a value.
ReadParam(elem, rs) == IF elem.t = "reference" THEN rs[elem.v[1]] ELSE elem

\* Assignment to a parameter: through the W_Reference when the parameter is
\* bound to one, to the callee's own local otherwise (lost on return).
WriteParam(elem, val, rs) ==
    IF elem.t = "reference" THEN [rs EXCEPT ![elem.v[1]] = val] ELSE rs

\* $l[0] = 666 on an array, $i = 666 on anything else
Mutated(val) ==
    IF val.t = "array" /\ Len(val.v) > 0
    THEN PArr([val.v EXCEPT ![1] = Assigned])
    ELSE PInt(Assigned)

\* w_php_func.call_args(php_interp, w_php_args_elems): the effect on the
\* references, and the value returned or thrown.
call_args(f, elems, rs) ==
    LET body == PHPFuncs[f].body
        n == Len(elems)
    IN  CASE body = "mutate" /\ n >= 1 ->
               [refs |-> WriteParam(elems[1], Mutated(ReadParam(elems[1], rs)), rs),
                outcome |-> "return", value |-> PNull]
          [] body = "swap" /\ n >= 2 ->
               LET tmp == ReadParam(elems[1], rs)
                   rs1 == WriteParam(elems[1], ReadParam(elems[2], rs), rs)
               IN  [refs |-> WriteParam(elems[2], tmp, rs1),
                    outcome |-> "return", value |-> PNull]
          [] body = "assign2" /\ n >= 1 ->
               [refs |-> IF n >= 2 THEN WriteParam(elems[2], PInt(Assigned), rs) ELSE rs,
                outcome |-> "return", value |-> ReadParam(elems[1], rs)]
          [] body = "throw" ->
               [refs |-> rs, outcome |-> "throw",
                value |-> IF n >= 1 THEN ReadParam(elems[1], rs) ELSE PNull]
          [] OTHER -> [refs |-> rs, outcome |-> "return", value |-> PNull]

----------------------------------------------------------------------------
(* The PHP side: instances, classes, their properties and methods.         *)

\* no property of that name
Absent == [t |-> "absent", v |-> <<>>]

PropNames == {"x", "m"}

\* The method names of the model.  Class A declares m, f, __toString,
\* __add__, __sub__ and __invoke public, secret and __mul__ private; class B
\* declares no method.
MethodNames ==
    << "m", "f", "secret", "__invoke", "__toString", "__add__", "__sub__",
       "__mul__", "__floordiv__", "__mod__", "__divmod__", "__pow__",
       "__lshift__", "__rshift__", "__and__", "__xor__", "__or__" >>

MethodVisibility(class, name) ==
    CASE class = "A" /\ name \in {"m", "f", "__toString", "__add__", "__sub__", "__invoke"}
           -> "public"
      [] class = "A" /\ name \in {"secret", "__mul__"} -> "private"
      [] OTHER -> "undefined"

\* the bound method `name` of the instance with handle h
PMeth(h, name) ==
    [t |-> "method",
     v |-> <<h, CHOOSE i \in 1..Len(MethodNames) : MethodNames[i] = name>>]

NoProps == [p \in PropNames |-> Absent]

\* two instances of A with equal properties, an instance of B, the class A
InitObjs ==
    << [kind |-> "instance", class |-> "A", props |-> [NoProps EXCEPT !["x"] = PInt(1)]],
       [kind |-> "instance", class |-> "A", props |-> [NoProps EXCEPT !["x"] = PInt(1)]],
       [kind |-> "instance", class |-> "B", props |-> NoProps],
       [kind |-> "class", class |-> "A", props |-> NoProps] >>

Handles == 1..Len(InitObjs)
InstanceHandles == {h \in Handles : InitObjs[h].kind = "instance"}

\* the instance a class call constructs: an object of no recorded handle
NewInstance == PObj(0)

\* isinstance(w_php_inst, ClassBase)
IsClassBase(os, w) == w.t = "object" /\ w.v[1] \in DOMAIN os /\ os[w.v[1]].kind = "class"

\* w_php_inst.getattr(interp, name, None, fail_with_none=True): the property,
\* None when the instance has none of that name
getattr(os, w, name) ==
    IF name \in PropNames /\ os[w.v[1]].props[name] # Absent
    THEN os[w.v[1]].props[name]
    ELSE None

\* w_php_inst.setattr(interp, name, w_value, None)
setattr(os, w, name, w_value) == [os EXCEPT ![w.v[1]].props[name] = w_value]

\* The effect of w_php_func.call_args on the PHP objects: set_x assigns 666
\* to the property x of the instance its parameter denotes.
call_heap(f, elems, rs, os) ==
    IF PHPFuncs[f].body = "setprop" /\ Len(elems) >= 1
    THEN LET w == ReadParam(elems[1], rs)
         IN  IF w.t = "object" /\ w.v[1] \in DOMAIN os /\ os[w.v[1]].kind = "instance"
             THEN setattr(os, w, "x", PInt(Assigned))
             ELSE os
    ELSE os

\* w_php_inst.getmeth(php_space, name, None): the bound method, or
\* VisibilityError when the class declares none that the caller may see
getmeth(os, w, name) ==
    IF MethodVisibility(os[w.v[1]].class, name) = "public"
    THEN [raised |-> FALSE, w |-> PMeth(w.v[1], name)]
    ELSE [raised |-> TRUE, w |-> None]

\* w_php_inst.get_callable(): the __invoke method of an instance, or None
get_callable(os, w) ==
    IF MethodVisibility(os[w.v[1]].class, "__invoke") = "public"
    THEN PMeth(w.v[1], "__invoke")
    ELSE None

\* call_args on a bound method or on a class.  Every method of A returns its
\* first argument, or $this->x when called with none; a class constructs a
\* new instance.
object_call_args(os, w_target, elems) ==
    CASE w_target.t = "object" -> NewInstance
      [] elems # <<>> -> elems[1]
      [] os[w_target.v[1]].props["x"] # Absent -> os[w_target.v[1]].props["x"]
      [] OTHER -> PNull

\* php_space.eq_w(w_a, w_b): PHP's ==.  Two objects are equal when they are
\* the same object, or instances of one class with equal properties.
eq_w(os, w_a, w_b) ==
    IF w_a.t = "object" /\ w_b.t = "object"
       /\ w_a.v[1] \in DOMAIN os /\ w_b.v[1] \in DOMAIN os
    THEN \/ w_a.v[1] = w_b.v[1]
         \/ /\ os[w_a.v[1]].kind = "instance"
            /\ os[w_b.v[1]].kind = "instance"
            /\ os[w_a.v[1]].class = os[w_b.v[1]].class
            /\ os[w_a.v[1]].props = os[w_b.v[1]].props
    ELSE w_a = w_b

----------------------------------------------------------------------------
(* The outcome of an operation *)

\* The message of a bridge error: the format string and what fills it.
NoMsg == [text |-> "", argno |-> 0, name |-> ""]

\* What an operation did: outcome is "return", "BridgeError" (raised by
\* _raise_py_bridgeerror) or "PHPException" (OperationError(w_phpexception, ..));
\* value is the Python value returned or carried by the exception; invoked
\* tells whether a PHP call_args was entered, target on what, elems with
\* which arguments.
Raised(m, elems, rs) ==
    [outcome |-> "BridgeError", msg |-> m, value |-> NoValue,
     refs |-> rs, invoked |-> FALSE, target |-> None, elems |-> elems]

Returned(val, rs) ==
    [outcome |-> "return", msg |-> NoMsg, value |-> val,
     refs |-> rs, invoked |-> FALSE, target |-> None, elems |-> <<>>]

ReturnedFrom(w_target, elems, val, rs) ==
    [outcome |-> "return", msg |-> NoMsg, value |-> val,
     refs |-> rs, invoked |-> TRUE, target |-> w_target, elems |-> elems]

RaisedFrom(w_target, elems, val, rs) ==
    [outcome |-> "PHPException", msg |-> NoMsg, value |-> val,
     refs |-> rs, invoked |-> TRUE, target |-> w_target, elems |-> elems]
----------------------------------------------------------------------------
(* W_PHPFuncAdapter *)

KwargsFuncMsg ==
    [text |-> "Cannot use kwargs when calling PHP functions", argno |-> 0, name |-> ""]
ByValMsg(n, fname) ==
    [text |-> "Arg %d of PHP func '%s' is pass by value", argno |-> n, name |-> fname]

\* ByRefMsg without the function's name
ByRefMsg_NoName(n, fname) ==
    [text |-> "Arg %d of PHP func '%s' is pass by reference", argno |-> n, name |-> ""]

ByRefMsg(n, fname) ==
    [text |-> "Arg %d of PHP func '%s' is pass by reference", argno |-> n, name |-> fname]

\* MarshalArg reporting the 0-based arg_no in its messages
MarshalArg_ZeroBased(f, arg_no, w_py_arg) ==
    IF needs_ref(f, arg_no)
    THEN IF ~IsRefAdapter(w_py_arg)
         THEN [err |-> ByRefMsg(arg_no, PHPFuncs[f].name), elem |-> PNull]
         ELSE [err |-> NoMsg, elem |-> RefOf(w_py_arg)]
    ELSE IF IsRefAdapter(w_py_arg)
         THEN [err |-> ByValMsg(arg_no, PHPFuncs[f].name), elem |-> PNull]
         ELSE [err |-> NoMsg, elem |-> to_php(w_py_arg)]

\* MarshalArg converting the cell at a by-reference position like any value
MarshalArg_ConvertsCell(f, arg_no, w_py_arg) ==
    IF needs_ref(f, arg_no)
    THEN IF ~IsRefAdapter(w_py_arg)
         THEN [err |-> ByRefMsg(arg_no + 1, PHPFuncs[f].name), elem |-> PNull]
         ELSE [err |-> NoMsg, elem |-> to_php(w_py_arg)]
    ELSE IF IsRefAdapter(w_py_arg)
         THEN [err |-> ByValMsg(arg_no + 1, PHPFuncs[f].name), elem |-> PNull]
         ELSE [err |-> NoMsg, elem |-> to_php(w_py_arg)]

\* MarshalArg without the check of the by-value branch: a cell is forwarded
\* as its reference wherever it is passed
MarshalArg_NoValueCheck(f, arg_no, w_py_arg) ==
    IF IsRefAdapter(w_py_arg)
    THEN [err |-> NoMsg, elem |-> RefOf(w_py_arg)]
    ELSE IF needs_ref(f, arg_no)
         THEN [err |-> ByRefMsg(arg_no + 1, PHPFuncs[f].name), elem |-> PNull]
         ELSE [err |-> NoMsg, elem |-> to_php(w_py_arg)]

\* One iteration of the loop of descr_call: the error it raises (NoMsg when
\* none) and the element it appends to w_php_args_elems.
MarshalArg(f, arg_no, w_py_arg) ==
    IF needs_ref(f, arg_no)
    THEN IF ~IsRefAdapter(w_py_arg)
         THEN [err |-> ByRefMsg(arg_no + 1, PHPFuncs[f].name), elem |-> PNull]
         ELSE [err |-> NoMsg, elem |-> RefOf(w_py_arg)]
    ELSE IF IsRefAdapter(w_py_arg)
         THEN [err |-> ByValMsg(arg_no + 1, PHPFuncs[f].name), elem |-> PNull]
         ELSE [err |-> NoMsg, elem |-> to_php(w_py_arg)]

\* The loop checking every argument before it raises: the error is the one of
\* the last mismatched position
Marshal_ReportsLast(f, args, arg_no, elems) ==
    LET errs == {i \in arg_no..(Len(args) - 1) : MarshalArg(f, i, args[i + 1]).err # NoMsg}
    IN  IF errs = {}
        THEN [err |-> NoMsg,
              elems |-> elems \o [k \in 1..(Len(args) - arg_no) |->
                                     MarshalArg(f, arg_no + k - 1, args[arg_no + k]).elem]]
        ELSE LET hi == CHOOSE i \in errs : \A j \in errs : j <= i
             IN  [err |-> MarshalArg(f, hi, args[hi + 1]).err, elems |-> elems]

\* The loop of descr_call over xrange(len(args)): it stops at the first
\* error, with the elements appended so far.
RECURSIVE Marshal(_, _, _, _)
Marshal(f, args, arg_no, elems) ==
    IF arg_no >= Len(args)
    THEN [err |-> NoMsg, elems |-> elems]
    ELSE LET m == MarshalArg(f, arg_no, args[arg_no + 1])
         IN  IF m.err # NoMsg
             THEN [err |-> m.err, elems |-> elems]
             ELSE Marshal(f, args, arg_no + 1, Append(elems, m.elem))

\* Called with the Throw swallowed: the call returns None
Called_Swallows(f, elems, rs) ==
    LET res == call_args(f, elems, rs)
    IN  IF res.outcome = "throw"
        THEN ReturnedFrom(PFunc(f), elems, PyNone, res.refs)
        ELSE ReturnedFrom(PFunc(f), elems, to_py(res.value), res.refs)

\* The try block of descr_call: call_args, a Throw re-raised as PHPException
\* carrying w_exc.to_py(), the result converted otherwise.
Called(f, elems, rs) ==
    LET res == call_args(f, elems, rs)
    IN  IF res.outcome = "throw"
        THEN RaisedFrom(PFunc(f), elems, to_py(res.value), res.refs)
        ELSE ReturnedFrom(PFunc(f), elems, to_py(res.value), res.refs)

\* descr_call validating after the call: every argument is forwarded (a cell
\* as its reference) and the PHP function runs before the errors are raised
FuncAdapter_descr_call_ChecksLate(f, args, kwargs, rs) ==
    LET m == Marshal(f, args, 0, <<>>)
        all == [i \in 1..Len(args) |->
                   IF IsRefAdapter(args[i]) THEN RefOf(args[i]) ELSE to_php(args[i])]
        res == Called(f, all, rs)
    IN  IF kwargs # {}
        THEN [res EXCEPT !.outcome = "BridgeError", !.msg = KwargsFuncMsg, !.value = NoValue]
        ELSE IF m.err # NoMsg
        THEN [res EXCEPT !.outcome = "BridgeError", !.msg = m.err, !.value = NoValue]
        ELSE res

\* descr_call looking at kwargs only once the arguments are marshalled
FuncAdapter_descr_call_KwargsLast(f, args, kwargs, rs) ==
    LET m == Marshal(f, args, 0, <<>>)
    IN  IF m.err # NoMsg
        THEN Raised(m.err, m.elems, rs)
        ELSE IF kwargs # {}
        THEN Raised(KwargsFuncMsg, m.elems, rs)
        ELSE Called(f, m.elems, rs)

\* W_PHPFuncAdapter.descr_call
FuncAdapter_descr_call(f, args, kwargs, rs) ==
    IF kwargs # {}
    THEN Raised(KwargsFuncMsg, <<>>, rs)
    ELSE LET m == Marshal(f, args, 0, <<>>)
         IN  IF m.err # NoMsg
             THEN Raised(m.err, m.elems, rs)
             ELSE Called(f, m.elems, rs)

----------------------------------------------------------------------------
(* W_PHPGenericAdapter *)

KwargsInstMsg ==
    [text |-> "Cannot use kwargs with callable PHP instances", argno |-> 0, name |-> ""]
NotCallableMsg ==
    [text |-> "Wrapped PHP instance is not callable", argno |-> 0, name |-> ""]
NoAttrMsg(attr) ==
    [text |-> "Wrapped PHP instance has no attribute '%s'", argno |-> 0, name |-> attr]
NoMethodMsg(meth) ==
    [text |-> "Wrapped PHP instance has no %s method", argno |-> 0, name |-> meth]

\* W_PHPGenericAdapter.is_w, W_PHPFuncAdapter.is_w: the same class of wrapper
\* around the same PHP object
is_w(self, other) == other.t = self.t /\ self.w = other.w

\* descr_get looking up the method before the property
GenericAdapter_descr_get_MethodFirst(self, name, os, rs) ==
    LET w_attr == getattr(os, self.w, name)
        meth == getmeth(os, self.w, name)
        w_php_target ==
            IF ~meth.raised THEN meth.w
            ELSE w_attr
    IN  IF w_php_target = None
        THEN Raised(NoAttrMsg(name), <<>>, rs)
        ELSE Returned(to_py(w_php_target), rs)

\* W_PHPGenericAdapter.descr_get
GenericAdapter_descr_get(self, name, os, rs) ==
    LET w_attr == getattr(os, self.w, name)
        meth == getmeth(os, self.w, name)
        w_php_target ==
            IF w_attr # None THEN w_attr
            ELSE IF meth.raised THEN None
            ELSE meth.w
    IN  IF w_php_target = None
        THEN Raised(NoAttrMsg(name), <<>>, rs)
        ELSE Returned(to_py(w_php_target), rs)

\* W_PHPGenericAdapter.descr_set: the heap after the assignment
GenericAdapter_descr_set(self, name, w_obj, os) ==
    setattr(os, self.w, name, to_php(w_obj))

\* [ x.to_php(self.interp) for x in w_py_args ]
ToPhpAll(w_py_args) == [i \in 1..Len(w_py_args) |-> to_php(w_py_args[i])]

\* descr_call without the ClassBase branch: a class is called like an instance
GenericAdapter_descr_call_NoClassBranch(self, w_py_args, w_py_kwargs, os, rs) ==
    IF w_py_kwargs # {}
    THEN Raised(KwargsInstMsg, <<>>, rs)
    ELSE LET w_php_callable == get_callable(os, self.w)
         IN  IF w_php_callable = None
             THEN Raised(NotCallableMsg, <<>>, rs)
             ELSE ReturnedFrom(w_php_callable, ToPhpAll(w_py_args),
                               to_py(object_call_args(os, w_php_callable,
                                                      ToPhpAll(w_py_args))), rs)

\* W_PHPGenericAdapter.descr_call
GenericAdapter_descr_call(self, w_py_args, w_py_kwargs, os, rs) ==
    IF w_py_kwargs # {}
    THEN Raised(KwargsInstMsg, <<>>, rs)
    ELSE IF IsClassBase(os, self.w)
    THEN ReturnedFrom(self.w, ToPhpAll(w_py_args),
                      to_py(object_call_args(os, self.w, ToPhpAll(w_py_args))), rs)
    ELSE LET w_php_callable == get_callable(os, self.w)
         IN  IF w_php_callable = None
             THEN Raised(NotCallableMsg, <<>>, rs)
             ELSE ReturnedFrom(w_php_callable, ToPhpAll(w_py_args),
                               to_py(object_call_args(os, w_php_callable,
                                                      ToPhpAll(w_py_args))), rs)

\* W_PHPGenericAdapter._descr_generic_unop
GenericAdapter_descr_generic_unop(self, name, os, rs) ==
    LET meth == getmeth(os, self.w, name)
    IN  IF meth.raised
        THEN Raised(NoMethodMsg(name), <<>>, rs)
        ELSE ReturnedFrom(meth.w, <<>>, to_py(object_call_args(os, meth.w, <<>>)), rs)

\* W_PHPGenericAdapter._descr_generic_binop
GenericAdapter_descr_generic_binop(self, w_other, name, os, rs) ==
    LET meth == getmeth(os, self.w, name)
    IN  IF meth.raised
        THEN Raised(NoMethodMsg(name), <<>>, rs)
        ELSE ReturnedFrom(meth.w, <<to_php(w_other)>>,
                          to_py(object_call_args(os, meth.w, <<to_php(w_other)>>)), rs)

\* descr_sub naming the method of descr_add
DescrMethod_SubCallsAdd(descr) ==
    CASE descr = "descr_str" -> "__toString"
      [] descr \in {"descr_add", "descr_sub"} -> "__add__"
      [] descr = "descr_mul" -> "__mul__"
      [] descr = "descr_floordiv" -> "__floordiv__"
      [] descr = "descr_mod" -> "__mod__"
      [] descr = "descr_divmod" -> "__divmod__"
      [] descr = "descr_pow" -> "__pow__"
      [] descr = "descr_lshift" -> "__lshift__"
      [] descr = "descr_rshift" -> "__rshift__"
      [] descr = "descr_and" -> "__and__"
      [] descr = "descr_xor" -> "__xor__"
      [] descr = "descr_or" -> "__or__"

\* descr_str, descr_add, ..., descr_or: the PHP method each one names
DescrMethod(descr) ==
    CASE descr = "descr_str" -> "__toString"
      [] descr = "descr_add" -> "__add__"
      [] descr = "descr_sub" -> "__sub__"
      [] descr = "descr_mul" -> "__mul__"
      [] descr = "descr_floordiv" -> "__floordiv__"
      [] descr = "descr_mod" -> "__mod__"
      [] descr = "descr_divmod" -> "__divmod__"
      [] descr = "descr_pow" -> "__pow__"
      [] descr = "descr_lshift" -> "__lshift__"
      [] descr = "descr_rshift" -> "__rshift__"
      [] descr = "descr_and" -> "__and__"
      [] descr = "descr_xor" -> "__xor__"
      [] descr = "descr_or" -> "__or__"

\* W_PHPGenericAdapter.typedef: the Python special method and its handler
Typedef(slot) ==
    CASE slot = "__str__" -> "descr_str"
      [] slot = "__add__" -> "descr_add"
      [] slot = "__sub__" -> "descr_sub"
      [] slot = "__mul__" -> "descr_mul"
      [] slot = "__floordiv__" -> "descr_floordiv"
      [] slot = "__mod__" -> "descr_mod"
      [] slot = "__divmod__" -> "descr_divmod"
      [] slot = "__pow__" -> "descr_pow"
      [] slot = "__lshift__" -> "descr_lshift"
      [] slot = "__rshift__" -> "descr_rshift"
      [] slot = "__and__" -> "descr_and"
      [] slot = "__xor__" -> "descr_xor"
      [] slot = "__or__" -> "descr_or"

OperatorSlots ==
    {"__str__", "__add__", "__sub__", "__mul__", "__floordiv__", "__mod__",
     "__divmod__", "__pow__", "__lshift__", "__rshift__", "__and__", "__xor__",
     "__or__"}

\* the operator `slot` applied to self (and w_other, which __str__ ignores)
GenericAdapter_operator(self, slot, w_other, os, rs) ==
    IF Typedef(slot) = "descr_str"
    THEN GenericAdapter_descr_generic_unop(self, DescrMethod(Typedef(slot)), os, rs)
    ELSE GenericAdapter_descr_generic_binop(self, w_other, DescrMethod(Typedef(slot)), os, rs)

\* descr_eq comparing the wrapped objects by identity
GenericAdapter_descr_eq_Identity(self, w_other, os) ==
    IF w_other.t = "PHPGenericAdapter" /\ self.w = w_other.w
    THEN w_True
    ELSE w_False

\* W_PHPGenericAdapter.descr_eq
GenericAdapter_descr_eq(self, w_other, os) ==
    IF w_other.t = "PHPGenericAdapter" /\ eq_w(os, self.w, w_other.w)
    THEN w_True
    ELSE w_False

\* space.not_
not_(w_bool) == IF w_bool = w_True THEN w_False ELSE w_True

\* W_PHPGenericAdapter.descr_ne
GenericAdapter_descr_ne(self, w_other, os) == not_(GenericAdapter_descr_eq(self, w_other, os))

\* self == w_other in Python.  PHPGenericAdapter defines __eq__; PHPFunc
\* defines none, and the object space then compares with is_w.
py_eq(self, w_other, os) ==
    IF self.t = "PHPGenericAdapter"
    THEN GenericAdapter_descr_eq(self, w_other, os)
    ELSE IF is_w(self, w_other) THEN w_True ELSE w_False

\* self != w_other in Python
py_ne(self, w_other, os) ==
    IF self.t = "PHPGenericAdapter"
    THEN GenericAdapter_descr_ne(self, w_other, os)
    ELSE IF is_w(self, w_other) THEN w_False ELSE w_True

----------------------------------------------------------------------------
(* W_PHPRefAdapter *)

\* W_PHPRefAdapter.__init__: self.ref = W_Reference(w_py_val.to_php(..)),
\* the new reference being the next slot of refs
RefAdapter_init(rs, w_py_val) == Append(rs, to_php(w_py_val))

\* deref converting the first reference created, whichever cell is asked
RefAdapter_deref_First(rs, c) == to_py(ReadParam(W_Reference(1), rs))

\* W_PHPRefAdapter.deref
RefAdapter_deref(rs, c) == to_py(ReadParam(W_Reference(c), rs))

\* W_PHPRefAdapter.typedef: the names a Python program can use on a cell
RefAdapter_typedef == {"__new__", "deref"}

\* cell.name(w): a name the typedef does not have is an AttributeError raised
\* by the Python interpreter; deref is the only method
RefAdapter_method(rs, c, name, w) ==
    IF name \notin RefAdapter_typedef
    THEN [Returned(NoValue, rs) EXCEPT !.outcome = "AttributeError"]
    ELSE Returned(RefAdapter_deref(rs, c), rs)

----------------------------------------------------------------------------
(* The Python program: the values it holds and the operations it performs  *)

PyPlain == {PyInt(1), PyList(<<1, 2>>)}

\* the numbers of the wrappers the program holds around one PHP value
AdapterIds == {1, 2}

GenericAdapters == {GenericAdapter(id, PObj(h)) : id \in AdapterIds, h \in Handles}
InstanceAdapters == {GenericAdapter(1, PObj(h)) : h \in InstanceHandles}
FuncAdapters == {FuncAdapter(id, PFunc(k)) : id \in AdapterIds, k \in {1, 3}}

\* the Python values at hand to pass in a state: plain values, a wrapped PHP
\* instance, and the cells created
PyArgs(rs) ==
    PyPlain \cup {GenericAdapter(1, PObj(1))} \cup {PHPRef(c) : c \in 1..Len(rs)}

\* the sequences over S of length at most n
SeqsUpTo(S, n) == UNION {[1..k -> S] : k \in 0..n}

KwargSets == {{}, {"k"}}

\* The record of an operation: op and its inputs (the PHP function number of
\* a W_PHPFuncAdapter call, the wrapper operated on, the attribute or special
\* method name, the arguments), its outcome (see Raised), and the references
\* and the PHP objects as they were before it.
Op(op, f, self, name, args, kwargs, res, pre) ==
    [op |-> op, func |-> f, self |-> self, name |-> name,
     args |-> args, kwargs |-> kwargs,
     outcome |-> res.outcome, msg |-> res.msg, value |-> res.value,
     elems |-> res.elems, invoked |-> res.invoked, target |-> res.target,
     pre |-> pre, preobjs |-> objs]

\* the Python program is between two operations
Idle ==
    [Op("idle", 0, NoValue, "", <<>>, {}, Returned(NoValue, <<>>), <<>>)
        EXCEPT !.preobjs = <<>>]

Init ==
    /\ refs = <<>>
    /\ objs = InitObjs
    /\ last = Idle

\* PHPRef(w_py_val): W_PHPRefAdapter.descr_new, w_py_val being a value of S
NewCellFrom(S) ==
    \E w \in S :
        /\ refs' = RefAdapter_init(refs, w)
        /\ last' = Op("new", 0, NoValue, "", <<w>>, {},
                      Returned(PHPRef(Len(refs) + 1), refs'), refs)

\* a cell of a plain value
descr_new ==
    /\ last = Idle
    /\ Len(refs) < MaxCells
    /\ NewCellFrom(PyPlain)
    /\ UNCHANGED objs

\* a cell of any value at hand: a plain value, a wrapped PHP instance, a cell
descr_new_any ==
    /\ last = Idle
    /\ Len(refs) < MaxCells
    /\ NewCellFrom(PyArgs(refs))
    /\ UNCHANGED objs

\* cell.deref()
deref ==
    /\ last = Idle
    /\ \E c \in 1..Len(refs) :
        last' = Op("deref", 0, PHPRef(c), "", <<>>, {},
                   Returned(RefAdapter_deref(refs, c), refs), refs)
    /\ UNCHANGED <<refs, objs>>

\* cell.set(w)
cell_set ==
    /\ last = Idle
    /\ \E c \in 1..Len(refs), w \in PyPlain :
        LET res == RefAdapter_method(refs, c, "set", w)
        IN  /\ refs' = res.refs
            /\ last' = Op("cell_set", 0, PHPRef(c), "set", <<w>>, {}, res, refs)
    /\ UNCHANGED objs

\* f(*args, **kwargs) on a W_PHPFuncAdapter wrapping the PHP function f, the
\* arguments being values of S; the PHP objects are as the function left them
\* when it was entered
FuncCallWith(S) ==
    \E f \in FuncIds, args \in SeqsUpTo(S, MaxArgs), kwargs \in KwargSets :
        LET res == FuncAdapter_descr_call(f, args, kwargs, refs)
        IN  /\ refs' = res.refs
            /\ objs' = IF res.invoked THEN call_heap(f, res.elems, refs, objs) ELSE objs
            /\ last' = Op("call", f, FuncAdapter(1, PFunc(f)), "", args, kwargs, res, refs)

\* a call with the values at hand: plain values, a wrapped instance, the cells
descr_call ==
    /\ last = Idle
    /\ FuncCallWith(PyArgs(refs))

\* o(*args, **kwargs) on a W_PHPGenericAdapter
obj_call ==
    /\ last = Idle
    /\ \E self \in {GenericAdapter(1, PObj(h)) : h \in Handles},
          args \in SeqsUpTo(PyArgs(refs), MaxArgs), kwargs \in KwargSets :
        last' = Op("obj_call", 0, self, "", args, kwargs,
                   GenericAdapter_descr_call(self, args, kwargs, objs, refs), refs)
    /\ UNCHANGED <<refs, objs>>

\* o.name
obj_get ==
    /\ last = Idle
    /\ \E self \in InstanceAdapters, name \in {"x", "m", "f", "secret", "nope"} :
        last' = Op("get", 0, self, name, <<>>, {},
                   GenericAdapter_descr_get(self, name, objs, refs), refs)
    /\ UNCHANGED <<refs, objs>>

\* o.name = w_obj
obj_set ==
    /\ last = Idle
    /\ \E self \in InstanceAdapters, name \in PropNames, w_obj \in PyPlain :
        /\ objs' = GenericAdapter_descr_set(self, name, w_obj, objs)
        /\ last' = Op("set", 0, self, name, <<w_obj>>, {}, Returned(PyNone, refs), refs)
    /\ UNCHANGED refs

\* str(o), o + w_other, o - w_other, ...
obj_operator ==
    /\ last = Idle
    /\ \E self \in InstanceAdapters, slot \in OperatorSlots, w_other \in PyArgs(refs) :
        last' = Op("operator", 0, self, slot, <<w_other>>, {},
                   GenericAdapter_operator(self, slot, w_other, objs, refs), refs)
    /\ UNCHANGED <<refs, objs>>

\* a == w_other and a != w_other, a being a wrapper
compare ==
    /\ last = Idle
    /\ \E self \in GenericAdapters \cup FuncAdapters,
          w_other \in GenericAdapters \cup FuncAdapters \cup PyPlain :
        \/ last' = Op("eq", 0, self, "__eq__", <<w_other>>, {},
                      Returned(py_eq(self, w_other, objs), refs), refs)
        \/ last' = Op("ne", 0, self, "__ne__", <<w_other>>, {},
                      Returned(py_ne(self, w_other, objs), refs), refs)
    /\ UNCHANGED <<refs, objs>>

\* a wrapper goes back to PHP: elems holds what to_php and
\* get_wrapped_php_obj give for it
unwrap ==
    /\ last = Idle
    /\ \E self \in GenericAdapters \cup FuncAdapters :
        last' = Op("unwrap", 0, self, "", <<>>, {},
                   [Returned(PyNone, refs) EXCEPT
                       !.elems = <<to_php(self), get_wrapped_php_obj(self)>>], refs)
    /\ UNCHANGED <<refs, objs>>

\* the Python program takes the result, or catches the exception, and goes on
Continue ==
    /\ last # Idle
    /\ last' = Idle
    /\ UNCHANGED <<refs, objs>>

\* the calls: W_PHPFuncAdapter, W_PHPRefAdapter and calls of W_PHPGenericAdapter
Next == descr_new \/ deref \/ cell_set \/ descr_call \/ obj_call \/ Continue

Spec == Init /\ [][Next]_vars

\* W_PHPGenericAdapter: attributes, calls, operators, comparison
NextObj ==
    obj_get \/ obj_set \/ obj_call \/ obj_operator \/ compare \/ unwrap \/ Continue

SpecObj == Init /\ [][NextObj]_vars

\* every operation that can end in _raise_py_bridgeerror: the calls of both
\* wrappers, the attribute lookup and the operators
NextErr ==
    descr_new \/ descr_call \/ obj_call \/ obj_get \/ obj_operator \/ Continue

SpecErr == Init /\ [][NextErr]_vars

\* cells of any value, and calls by value and by reference
NextCells == descr_new_any \/ deref \/ descr_call \/ Continue

SpecCells == Init /\ [][NextCells]_vars

\* the Python values passed in the calls on objects: plain values and the
\* wrappers of two PHP instances
PyObjArgs == PyPlain \cup {GenericAdapter(1, PObj(1)), GenericAdapter(1, PObj(2))}

\* f(*args) on a W_PHPFuncAdapter, with wrapped PHP instances as arguments
pass_call ==
    /\ last = Idle
    /\ FuncCallWith(PyObjArgs)

\* PHP calls the Python function  def f(x): x.name = w  with the instance h:
\* x is bound to h.to_py(), the assignment is descr_set on it; elems holds
\* what PHP passed
php_calls_py ==
    /\ last = Idle
    /\ \E h \in InstanceHandles, name \in PropNames, w \in PyPlain :
        LET x == to_py(PObj(h))
        IN  /\ objs' = GenericAdapter_descr_set(x, name, w, objs)
            /\ last' = Op("py_callee_set", 0, x, name, <<w>>, {},
                          [Returned(PyNone, refs) EXCEPT !.elems = <<PObj(h)>>], refs)
    /\ UNCHANGED refs

\* objects passed by value in both directions
NextPass == pass_call \/ php_calls_py \/ Continue

SpecPass == Init /\ [][NextPass]_vars

----------------------------------------------------------------------------
(* Claims about W_PHPFuncAdapter.descr_call, checked under Spec *)

IsFuncCall == last.op = "call"

\* the 0-based positions of the last call's arguments
ArgNos == 0..(Len(last.args) - 1)

\* position i of the last call is declared by reference
DeclaredRef(i) == i \in PHPFuncs[last.func].byref

\* the argument at position i does not fit the declaration of position i
ValueWhereRef(i) == DeclaredRef(i) /\ last.args[i + 1].t # "PHPRef"
RefWhereValue(i) == ~DeclaredRef(i) /\ last.args[i + 1].t = "PHPRef"
Mismatch(i) == ValueWhereRef(i) \/ RefWhereValue(i)

SaysByRef(n) ==
    /\ last.outcome = "BridgeError"
    /\ last.msg = [text |-> "Arg %d of PHP func '%s' is pass by reference",
                   argno |-> n, name |-> PHPFuncs[last.func].name]

SaysByValue(n) ==
    /\ last.outcome = "BridgeError"
    /\ last.msg = [text |-> "Arg %d of PHP func '%s' is pass by value",
                   argno |-> n, name |-> PHPFuncs[last.func].name]

\* C1 as stated: in every call and at every position i, a plain value where
\* needs_ref(i) holds fails with the message "Arg i+1 ... is pass by
\* reference", and a cell where needs_ref(i) does not hold fails with
\* "Arg i+1 ... is pass by value".
C1_EveryPositionReported ==
    IsFuncCall =>
        \A i \in ArgNos :
            /\ ValueWhereRef(i) => SaysByRef(i + 1)
            /\ RefWhereValue(i) => SaysByValue(i + 1)

\* C1 amended: a mismatch at any position makes the call fail with a bridge
\* error; the message is the one of position i, with argument number i+1 and
\* the function's name, when the call has no keyword arguments and no
\* position below i is mismatched.
C1_FirstMismatchReported ==
    IsFuncCall =>
        \A i \in ArgNos :
            LET first == last.kwargs = {} /\ \A j \in ArgNos : j < i => ~Mismatch(j)
            IN  /\ Mismatch(i) => last.outcome = "BridgeError"
                /\ first /\ ValueWhereRef(i) => SaysByRef(i + 1)
                /\ first /\ RefWhereValue(i) => SaysByValue(i + 1)

\* a call whose second argument is the first mismatch, of each kind
C1_Witness ==
    /\ IsFuncCall
    /\ last.kwargs = {}
    /\ Len(last.args) = 2
    /\ ~Mismatch(0)
    /\ Mismatch(1)
    /\ last.msg.argno = 2

\* C2: a call that ends in a bridge usage error (keyword arguments, or a
\* mismatch at any position, also after valid arguments) has not entered
\* call_args, and every reference holds the payload it held before the call.
C2_UsageErrorBeforeInvocation ==
    IsFuncCall /\ last.outcome = "BridgeError" =>
        /\ ~last.invoked
        /\ refs = last.pre

\* swap(cell, plain value): the mismatch follows a valid by-reference argument
C2_Witness ==
    /\ IsFuncCall
    /\ last.outcome = "BridgeError"
    /\ last.kwargs = {}
    /\ Len(last.args) = 2
    /\ last.args[1].t = "PHPRef"
    /\ DeclaredRef(0)
    /\ Mismatch(1)
    /\ PHPFuncs[last.func].body = "swap"

\* C3: at a position declared by reference the callee is handed the cell's
\* own W_Reference, so what the callee assigns is what deref returns after
\* the call: g_ref leaves 666 (or the array with element 0 set to 666) in the
\* cell, and swap leaves in each of its two cells the other's former payload.
C3_CalleeWritesThroughCell ==
    IsFuncCall /\ last.invoked =>
        /\ \A i \in ArgNos :
               DeclaredRef(i) => last.elems[i + 1] = W_Reference(last.args[i + 1].v[1])
        /\ \A c \in 1..Len(refs) :
               PHPFuncs[last.func].name = "g_ref" /\ last.args = <<PHPRef(c)>> =>
                   RefAdapter_deref(refs, c) =
                       IF last.pre[c].t = "array"
                       THEN PyList([last.pre[c].v EXCEPT ![1] = 666])
                       ELSE PyInt(666)
        /\ \A c1, c2 \in 1..Len(refs) :
               PHPFuncs[last.func].name = "swap" /\ last.args = <<PHPRef(c1), PHPRef(c2)>> =>
                   /\ refs[c1] = last.pre[c2]
                   /\ refs[c2] = last.pre[c1]

\* swap was called on two cells that held different payloads
C3_Witness ==
    /\ IsFuncCall
    /\ last.invoked
    /\ PHPFuncs[last.func].name = "swap"
    /\ Len(last.args) = 2
    /\ last.args[1].t = "PHPRef"
    /\ last.args[2].t = "PHPRef"
    /\ last.args[1] # last.args[2]
    /\ last.pre[last.args[1].v[1]] # last.pre[last.args[2].v[1]]
    /\ refs # last.pre

\* the cell c is passed at a position declared by reference
PassedByRef(c) == \E i \in ArgNos : DeclaredRef(i) /\ last.args[i + 1] = PHPRef(c)

C5_KwargsRejectedFirst ==
    last.op \in {"call", "obj_call"} /\ last.kwargs # {} =>
        /\ last.outcome = "BridgeError"
        /\ last.msg.text =
               IF last.op = "call"
               THEN "Cannot use kwargs when calling PHP functions"
               ELSE "Cannot use kwargs with callable PHP instances"
        /\ last.elems = <<>>
        /\ ~last.invoked
        /\ refs = last.pre

\* a call with a keyword argument and two positional ones, the first of
\* which does not fit its declaration
C5_Witness ==
    /\ IsFuncCall
    /\ last.kwargs # {}
    /\ Len(last.args) = 2
    /\ Mismatch(0)

\* C6: when the PHP function throws, the call raises PHPException carrying
\* the conversion of the thrown value and returns nothing; when it does not,
\* the call returns the conversion of the PHP result.  t(1) raises
\* PHPException carrying the Python integer 1.
C6_ThrowBecomesPHPException ==
    IsFuncCall /\ last.invoked =>
        LET res == call_args(last.func, last.elems, last.pre)
        IN  /\ res.outcome = "throw" =>
                   /\ last.outcome = "PHPException"
                   /\ last.value = to_py(res.value)
            /\ res.outcome # "throw" =>
                   /\ last.outcome = "return"
                   /\ last.value = to_py(res.value)
            /\ PHPFuncs[last.func].name = "t" /\ last.args = <<PyInt(1)>> =>
                   /\ last.outcome = "PHPException"
                   /\ last.value = PyInt(1)

\* t was called with a list and threw it
C6_Witness ==
    /\ IsFuncCall
    /\ last.invoked
    /\ PHPFuncs[last.func].name = "t"
    /\ last.outcome = "PHPException"
    /\ last.value = PyList(<<1, 2>>)

----------------------------------------------------------------------------
(* Claims about W_PHPGenericAdapter, checked under SpecObj *)

\* the instance or class the last operation's wrapper holds
SelfObj == objs[last.self.w.v[1]]

\* C7: o.x gives the conversion of the property x when the instance has one,
\* also when its class declares a method x; otherwise the public method x as
\* a W_PHPFuncAdapter bound to the instance; otherwise, the method being
\* private or undeclared, it fails with "Wrapped PHP instance has no
\* attribute 'x'".
C7_PropertyBeforeMethod ==
    last.op = "get" =>
        LET has_prop == last.name \in PropNames /\ SelfObj.props[last.name] # Absent
            visible == MethodVisibility(SelfObj.class, last.name) = "public"
        IN  /\ has_prop =>
                   /\ last.outcome = "return"
                   /\ last.value.t \in {"py_int", "py_list"}
                   /\ last.value.v = SelfObj.props[last.name].v
            /\ ~has_prop /\ visible =>
                   /\ last.outcome = "return"
                   /\ last.value.t = "PHPFunc"
                   /\ last.value.w = PMeth(last.self.w.v[1], last.name)
            /\ ~has_prop /\ ~visible =>
                   /\ last.outcome = "BridgeError"
                   /\ last.msg = [text |-> "Wrapped PHP instance has no attribute '%s'",
                                  argno |-> 0, name |-> last.name]

\* o.m was read on an instance that has a property m and a public method m
C7_Witness ==
    /\ last.op = "get"
    /\ last.name = "m"
    /\ SelfObj.props["m"] # Absent
    /\ MethodVisibility(SelfObj.class, "m") = "public"
    /\ last.outcome = "return"

ForeignEqual(a, b) ==
    \/ a = b
    \/ /\ objs[a.v[1]].kind = "instance"
       /\ objs[b.v[1]].kind = "instance"
       /\ objs[a.v[1]].class = objs[b.v[1]].class
       /\ \A p \in PropNames : objs[a.v[1]].props[p] = objs[b.v[1]].props[p]

\* C9: == on a W_PHPGenericAdapter is True exactly when the other operand is
\* a W_PHPGenericAdapter too and the two wrapped values are equal for PHP; for
\* any other operand it is False and raises nothing; != is the negation.
C9_EqualityOfAdapters ==
    last.op \in {"eq", "ne"} /\ last.self.t = "PHPGenericAdapter" =>
        LET equal == /\ last.args[1].t = "PHPGenericAdapter"
                     /\ ForeignEqual(last.self.w, last.args[1].w)
        IN  /\ last.outcome = "return"
            /\ last.op = "eq" => last.value = IF equal THEN w_True ELSE w_False
            /\ last.op = "ne" => last.value = IF equal THEN w_False ELSE w_True

\* wrappers of two distinct instances with equal properties compared equal
C9_Witness ==
    /\ last.op = "eq"
    /\ last.self.t = "PHPGenericAdapter"
    /\ last.args[1].t = "PHPGenericAdapter"
    /\ last.self.w # last.args[1].w
    /\ last.value = w_True

\* the PHP method the Python special method `slot` stands for
ForeignMethodOf(slot) == IF slot = "__str__" THEN "__toString" ELSE slot

\* C10: str(o) and every binary operator on o call the PHP method of the
\* corresponding name (__toString for str, the operator's own special name
\* otherwise) with the converted operand, and return the converted result;
\* when the instance has no such method to call, the operation fails with
\* "Wrapped PHP instance has no <name> method" and calls nothing.
C10_OperatorsForward ==
    last.op = "operator" =>
        LET meth == ForeignMethodOf(last.name)
            operand == last.args[1]
        IN  /\ MethodVisibility(SelfObj.class, meth) = "public" =>
                   /\ last.outcome = "return"
                   /\ last.invoked
                   /\ last.target = PMeth(last.self.w.v[1], meth)
                   /\ last.name = "__str__" => last.elems = <<>>
                   /\ last.name # "__str__" => Len(last.elems) = 1
                   /\ last.name # "__str__" /\ operand.t = "py_int" =>
                          last.elems = <<PInt(operand.v[1])>>
                   /\ last.name # "__str__" /\ operand.t = "py_list" =>
                          last.elems = <<PArr(operand.v)>>
                   /\ last.name # "__str__" /\ operand.t = "PHPGenericAdapter" =>
                          last.elems = <<operand.w>>
            /\ MethodVisibility(SelfObj.class, meth) # "public" =>
                   /\ last.outcome = "BridgeError"
                   /\ ~last.invoked
                   /\ last.msg = [text |-> "Wrapped PHP instance has no %s method",
                                  argno |-> 0, name |-> meth]

\* o - [1, 2] was forwarded to __sub__ of an instance of A
C10_Witness ==
    /\ last.op = "operator"
    /\ last.name = "__sub__"
    /\ last.invoked
    /\ last.target.t = "method"
    /\ last.elems = <<PArr(<<1, 2>>)>>
    /\ last.value = PyList(<<1, 2>>)

----------------------------------------------------------------------------
----------------------------------------------------------------------------
(* Claims about the messages of the bridge errors, checked under SpecErr *)

IsBridgeError == last.outcome = "BridgeError"

\* C11 as stated: every bridge error (keyword arguments, reference/value
\* mismatch, missing attribute or method, non-callable target) has a message
\* that names a 1-based argument position and the name of the PHP callable.
C11_EveryErrorNamesPositionAndCallable ==
    IsBridgeError =>
        /\ last.msg.argno \in 1..Len(last.args)
        /\ last.msg.name # ""
        /\ IsFuncCall => last.msg.name = PHPFuncs[last.func].name

\* C11 amended: only the reference/value mismatch of a W_PHPFuncAdapter call
\* names the 1-based position of the mismatched argument and the function's
\* name; the keyword-argument errors and the not-callable error are fixed
\* messages with neither, the missing-attribute error names the attribute and
\* the missing-method error names the PHP method; no other operation raises
\* a bridge error.
C11_OnlyMismatchNamesPosition ==
    IsBridgeError =>
        CASE last.op = "call" /\ last.kwargs # {} ->
               last.msg = [text |-> "Cannot use kwargs when calling PHP functions",
                           argno |-> 0, name |-> ""]
          [] last.op = "call" /\ last.kwargs = {} ->
               /\ last.msg.argno \in 1..Len(last.args)
               /\ Mismatch(last.msg.argno - 1)
               /\ last.msg.name = PHPFuncs[last.func].name
               /\ SaysByRef(last.msg.argno) \/ SaysByValue(last.msg.argno)
          [] last.op = "obj_call" /\ last.kwargs # {} ->
               last.msg = [text |-> "Cannot use kwargs with callable PHP instances",
                           argno |-> 0, name |-> ""]
          [] last.op = "obj_call" /\ last.kwargs = {} ->
               last.msg = [text |-> "Wrapped PHP instance is not callable",
                           argno |-> 0, name |-> ""]
          [] last.op = "get" ->
               last.msg = [text |-> "Wrapped PHP instance has no attribute '%s'",
                           argno |-> 0, name |-> last.name]
          [] last.op = "operator" ->
               last.msg = [text |-> "Wrapped PHP instance has no %s method",
                           argno |-> 0, name |-> ForeignMethodOf(last.name)]
          [] OTHER -> FALSE

\* h(1, 1): the plain value at the by-reference position 1 is reported as
\* argument 2 of 'h'
C11_Witness ==
    /\ IsFuncCall
    /\ IsBridgeError
    /\ last.func = 5
    /\ last.args = <<PyInt(1), PyInt(1)>>
    /\ last.msg.argno = 2
    /\ last.msg.name = "h"

----------------------------------------------------------------------------
(* Claims about W_PHPRefAdapter, checked under Spec *)

\* the Python value a payload stands for
HostOf(w_php) ==
    CASE w_php.t = "int" -> [t |-> "py_int", v |-> w_php.v, w |-> PNull]
      [] w_php.t = "array" -> [t |-> "py_list", v |-> w_php.v, w |-> PNull]

\* C12 as stated: a cell has a set(w) method; after cell.set(w) the call has
\* returned and deref gives the Python value w.
C12_SetThenGet ==
    last.op = "cell_set" =>
        /\ last.outcome = "return"
        /\ HostOf(refs[last.self.v[1]]) = last.args[1]

\* C12 amended: a cell has deref and no set.  The payload of a cell just
\* created from v stands for v; deref returns the Python value of the payload
\* the cell holds now and changes no cell; cell.set(w) is an AttributeError
\* and changes no cell; a payload changes only by a PHP function called with
\* the cell by reference, after which deref on the cell gives what the function
\* stored (h stores 666 in its second parameter, swap exchanges the payloads).
C12_DerefObservesLastStore ==
    /\ last.op = "new" =>
           /\ last.value = PHPRef(Len(refs))
           /\ HostOf(refs[Len(refs)]) = last.args[1]
           /\ SubSeq(refs, 1, Len(last.pre)) = last.pre
    /\ last.op = "deref" =>
           /\ last.outcome = "return"
           /\ last.value = HostOf(refs[last.self.v[1]])
           /\ refs = last.pre
    /\ last.op = "cell_set" =>
           /\ last.outcome = "AttributeError"
           /\ refs = last.pre
    /\ IsFuncCall /\ last.invoked =>
           /\ last.func = 5 /\ Len(last.args) = 2 =>
                  HostOf(refs[last.args[2].v[1]]) = PyInt(Assigned)
           /\ last.func = 3 /\ Len(last.args) = 2 =>
                  /\ HostOf(refs[last.args[1].v[1]]) = HostOf(last.pre[last.args[2].v[1]])
                  /\ HostOf(refs[last.args[2].v[1]]) = HostOf(last.pre[last.args[1].v[1]])
    /\ last.op \notin {"new", "call"} => refs = last.pre \/ last = Idle

\* deref on the second cell returns the value a PHP function stored in it,
\* the first cell holding another value
C12_Witness ==
    /\ last.op = "deref"
    /\ last.self = PHPRef(2)
    /\ last.value = PyInt(Assigned)
    /\ refs[1] # refs[2]

----------------------------------------------------------------------------
(* Claims about objects passed by value, checked under SpecPass *)

\* the PHP objects other than h, and the properties of h other than name, are
\* as they were before the operation
OnlyChanged(h, name) ==
    /\ Len(objs) = Len(last.preobjs)
    /\ \A k \in 1..Len(objs) :
           /\ objs[k].kind = last.preobjs[k].kind
           /\ objs[k].class = last.preobjs[k].class
           /\ \A p \in PropNames :
                  k # h \/ p # name => objs[k].props[p] = last.preobjs[k].props[p]

\* C13: a wrapped PHP instance passed by value reaches the callee as the same
\* instance.  A PHP function receives the instance the wrapper holds, and the
\* property set_x assigns is on that instance after the call; a Python
\* function called from PHP receives a wrapper of the caller's instance, and
\* the attribute it sets is on that instance.  A function that only rebinds
\* or swaps its parameters (g, swap_local, h, t) changes no PHP object, and
\* the caller's wrappers hold the instances they held.
C13_ObjectByValueIsSameObject ==
    /\ IsFuncCall /\ last.invoked =>
           /\ \A i \in ArgNos :
                  last.args[i + 1].t = "PHPGenericAdapter" =>
                      last.elems[i + 1] = [t |-> "object", v |-> last.args[i + 1].w.v]
           /\ IF last.func = 7 /\ Len(last.args) >= 1
                 /\ last.args[1].t = "PHPGenericAdapter"
              THEN /\ objs[last.args[1].w.v[1]].props["x"] = PInt(666)
                   /\ OnlyChanged(last.args[1].w.v[1], "x")
              ELSE objs = last.preobjs
    /\ IsFuncCall /\ ~last.invoked => objs = last.preobjs
    /\ last.op = "py_callee_set" =>
           /\ last.self.w = last.elems[1]
           /\ objs[last.elems[1].v[1]].props[last.name] =
                  (IF last.args[1].t = "py_int"
                   THEN PInt(last.args[1].v[1]) ELSE PArr(last.args[1].v))
           /\ OnlyChanged(last.elems[1].v[1], last.name)

\* set_x was called with the wrapper of the second instance, whose x was not
\* 666, the first instance keeping another x
C13_Witness ==
    /\ IsFuncCall
    /\ last.func = 7
    /\ last.args = <<GenericAdapter(1, PObj(2))>>
    /\ last.preobjs[2].props["x"] = PInt(1)
    /\ objs[2].props["x"] = PInt(666)
    /\ objs[1].props["x"] = PInt(1)

----------------------------------------------------------------------------
(* Claims about W_PHPGenericAdapter.descr_call, checked under SpecObj *)

\* the PHP value the Python argument x is converted to
ConvertedArg(x) ==
    CASE x.t = "py_int" -> [t |-> "int", v |-> x.v]
      [] x.t = "py_list" -> [t |-> "array", v |-> x.v]
      [] x.t = "PHPGenericAdapter" -> x.w

\* the last call passed call_args one converted argument per argument given
ForwardsConvertedArgs ==
    /\ Len(last.elems) = Len(last.args)
    /\ \A i \in 1..Len(last.args) : last.elems[i] = ConvertedArg(last.args[i])

\* C14: a call of a W_PHPGenericAdapter without keyword arguments.  When the
\* wrapped value is a class, call_args is entered on the class with every
\* argument converted, and the wrapper of the new instance is returned.
\* When it is an instance with a public __invoke, call_args is entered on
\* that method with the converted arguments.  When it is an instance without
\* one, the call is a bridge error "Wrapped PHP instance is not callable"
\* and no call_args is entered.
C14_CallOfGenericAdapter ==
    last.op = "obj_call" /\ last.kwargs = {} =>
        LET o == objs[last.self.w.v[1]]
        IN  /\ objs = last.preobjs
            /\ refs = last.pre
            /\ IF o.kind = "class"
               THEN /\ last.invoked
                    /\ last.target = last.self.w
                    /\ ForwardsConvertedArgs
                    /\ last.outcome = "return"
                    /\ last.value = GenericAdapter(0, NewInstance)
               ELSE IF o.class = "A"
               THEN /\ last.invoked
                    /\ last.target = PMeth(last.self.w.v[1], "__invoke")
                    /\ ForwardsConvertedArgs
                    /\ last.outcome = "return"
               ELSE /\ ~last.invoked
                    /\ last.target = None
                    /\ last.elems = <<>>
                    /\ last.outcome = "BridgeError"
                    /\ last.msg.text = "Wrapped PHP instance is not callable"

\* the class A was called with a list and a wrapped instance
C14_Witness ==
    /\ last.op = "obj_call"
    /\ last.kwargs = {}
    /\ objs[last.self.w.v[1]].kind = "class"
    /\ last.args = <<PyList(<<1, 2>>), GenericAdapter(1, PObj(1))>>
    /\ last.invoked
    /\ last.value.t = "PHPGenericAdapter"

----------------------------------------------------------------------------
(* Claims about the payload of a W_PHPRefAdapter, checked under SpecCells *)

\* C15: whatever cells were created, from whatever values, and whatever calls
\* were made, every cell holds a PHP value of the kinds to_py converts (an
\* integer, an array, null, an object, a callable), and deref on a cell never
\* gives a cell: no cell holds another cell.
C15_NoCellInCell ==
    \A c \in 1..Len(refs) :
        /\ refs[c].t \in {"int", "array", "null", "object", "function", "method"}
        /\ RefAdapter_deref(refs, c).t # "PHPRef"

----------------------------------------------------------------------------
(* Claims about the order of the loop of W_PHPFuncAdapter.descr_call,      *)
(* checked under Spec                                                      *)

\* what the loop appends for position i: the cell's own W_Reference at a
\* by-reference position, the converted value elsewhere
Forwarded(i) ==
    IF DeclaredRef(i)
    THEN [t |-> "reference", v |-> last.args[i + 1].v]
    ELSE ConvertedArg(last.args[i + 1])

\* C16: a call without keyword arguments looks at its arguments from left to
\* right.  When some position is mismatched, the call is a bridge error that
\* reports the lowest mismatched position (1-based) with the message of its
\* kind, the positions below it having been forwarded in order and call_args
\* not entered.  When none is, call_args is entered with exactly one element
\* per argument, in the order given.
C16_LeftToRight ==
    IsFuncCall /\ last.kwargs = {} =>
        LET bad == {i \in ArgNos : Mismatch(i)}
        IN  IF bad # {}
            THEN LET lo == CHOOSE i \in bad : \A j \in bad : i <= j
                 IN  /\ ~last.invoked
                     /\ last.outcome = "BridgeError"
                     /\ last.msg.argno = lo + 1
                     /\ last.msg.name = PHPFuncs[last.func].name
                     /\ last.msg.text =
                            (IF DeclaredRef(lo)
                             THEN "Arg %d of PHP func '%s' is pass by reference"
                             ELSE "Arg %d of PHP func '%s' is pass by value")
                     /\ Len(last.elems) = lo
                     /\ \A i \in 0..(lo - 1) : last.elems[i + 1] = Forwarded(i)
            ELSE /\ last.invoked
                 /\ last.target = PFunc(last.func)
                 /\ Len(last.elems) = Len(last.args)
                 /\ \A i \in ArgNos : last.elems[i + 1] = Forwarded(i)

\* h(cell, 1): a cell at the by-value position 0 and a plain value at the
\* by-reference position 1; the error is the one of position 0
C16_Witness ==
    /\ IsFuncCall
    /\ last.kwargs = {}
    /\ last.func = 5
    /\ Len(last.args) = 2
    /\ RefWhereValue(0)
    /\ ValueWhereRef(1)
    /\ last.msg.argno = 1

TypeOK ==
    /\ Len(refs) <= MaxCells
    /\ last.op \in {"idle", "new", "deref", "call", "obj_call", "get", "set",
                    "operator", "eq", "ne", "unwrap", "cell_set", "py_callee_set"}

====
